---- MODULE Spec2Model ----
(***************************************************************************)
(* Authentication and authorization core of api-starter: the user store,   *)
(* the JWT guard (authenticate), the role guard (requireRole), the auth    *)
(* routes (OAuth callback, /auth/me, /auth/logout, /auth/dev/token), the   *)
(* user CRUD routes under /api/users and the admin routes under            *)
(* /api/admin/users.  One action is one HTTP request handled from its      *)
(* first onRequest hook to its response.                                   *)
(***************************************************************************)
EXTENDS Integers, FiniteSets, Sequences, TLC

\* ---------------------------------------------------------------- bounds
\* Largest primary key the users table hands out in the model.
MaxId == 2
\* Largest value of the wall clock.
MaxTime == 1
\* Most entries in the list GitHub's emails endpoint answers.
MaxEmails == 2
\* Most requests being handled at the same time.
MaxInFlight == 2

\* ------------------------------------------------------------ value sets
Ids == 1..MaxId
Emails == {"a@x.com", "b@x.com"}
Names == {"Ann", "Bob"}
Roles == {"user", "admin"}
Providers == {"google", "github"}
\* The providers the configuration knows; one of them has no credentials.
KnownProviders == Providers \cup {"microsoft"}
\* The locales getLocaleFromHeader can detect ('fr' behaves as 'es' does).
Locales == {"en", "es"}
ProviderIds == {"p1", "p2"}
AccessTokens == {"at1", "at2"}
RefreshTokens == {"rt1"}
\* Seconds of validity the provider may report; 0 stands for "not reported".
ExpiresIn == {0, 7200}
\* token.expires_in || 3600
DefaultExpiresIn == 3600
\* A column holding NULL, a property that is undefined.
Null == "null"
NullTime == -1
\* The name /auth/dev/token gives a user when the body has none.
DefaultDevName == "Test User"
\* Where a callback can throw after the identity was fetched: in
\* User.findOrCreate, in User.update, in fastify.jwt.sign.
Faults == {"none", "upsert", "update", "sign"}
\* The columns of the users table.
Columns ==
  {"id", "name", "email", "role", "oauthProvider", "oauthId", "oauthAccessToken",
   "oauthRefreshToken", "oauthTokenExpiresAt", "createdAt", "updatedAt"}

\* ----------------------------------------------------------------- state
VARIABLES
  users,      \* the users table: primary key -> row
  nextId,     \* the next value of the autoIncrement primary key
  tokens,     \* claims of the JWTs signed so far
  now,        \* wall clock
  last,       \* the request handled last, what it met and its response
  inflight    \* the requests handled step by step, each between two awaits

vars == <<users, nextId, tokens, now, last, inflight>>

\* A row of the users table.
UserRow(name, email, role, prov, oid, at, rt, exp) ==
  [name |-> name, email |-> email, role |-> role,
   oauthProvider |-> prov, oauthId |-> oid,
   oauthAccessToken |-> at, oauthRefreshToken |-> rt,
   oauthTokenExpiresAt |-> exp]

\* The role column: ENUM('user','admin'), NOT NULL, defaultValue 'user'.
DefaultRole == "user"

\* -------------------------------------------------------- the user store
\* User.findByPk(id) finds a row.
Exists(id) == id \in DOMAIN users

\* Mutant of IdsByEmail: the lookup by email never finds a row.
IdsByEmailNone(e) == {}

\* The rows whose email column is e (User.findOne({where: {email}})).
IdsByEmail(e) == {i \in DOMAIN users : users[i].email = e}

\* Mutant of UniqueViolation: the index is consulted by UPDATE only.
UniqueViolationOnUpdateOnly(e, self) ==
  self # 0 /\ \E i \in DOMAIN users \ {self} : users[i].email = e

\* Mutant of UniqueViolation: the email column has no unique index.
UniqueViolationUnenforced(e, self) == FALSE

\* The unique index on users.email rejects a write that would give the row
\* `self` (0 for an insert) an email another row holds.
UniqueViolation(e, self) == \E i \in DOMAIN users : i # self /\ users[i].email = e

\* The table after INSERT of row r under the next primary key.
Inserted(r) == [i \in DOMAIN users \cup {nextId} |-> IF i = nextId THEN r ELSE users[i]]

\* The table after DELETE of the row id.
Removed(id) == [i \in DOMAIN users \ {id} |-> users[i]]

\* Ids are handed out up to MaxId.
CanCreate == nextId <= MaxId

\* ------------------------------------------------------------------ JWTs
\* Claims of a token: the callback and /auth/dev/token sign {userId, email}
\* only, so the role claim of a signed token is absent (Null).
Claims(uid, email, role) == [userId |-> uid, email |-> email, role |-> role]

\* Mutant of JwtSign: the payload carries the role stored at issuance.
JwtSignWithStoredRole(uid, email) ==
  [userId |-> uid, email |-> email,
   role |-> IF Exists(uid) THEN users[uid].role ELSE "user"]

\* fastify.jwt.sign({userId: user.id, email: user.email}, {expiresIn: '7d'})
JwtSign(uid, email) == Claims(uid, email, Null)

\* What a client may put in the Authorization header: a token this server
\* signed, the same after its 7 days, nothing, garbage, or claims of the
\* client's choosing under a signature made without the server's secret
\* (kinds "valid", "expired", "missing", "malformed", "badsig").
ForgedClaims == {Claims(1, "a@x.com", "admin")}
NoClaims == Claims(0, Null, Null)
GenuineTokens == {[kind |-> "valid", claims |-> c] : c \in tokens}
RejectedTokens ==
  {[kind |-> "expired", claims |-> c] : c \in tokens}
  \cup {[kind |-> "badsig", claims |-> c] : c \in ForgedClaims}
  \cup {[kind |-> k, claims |-> NoClaims] : k \in {"missing", "malformed"}}
BearerTokens == GenuineTokens \cup RejectedTokens

\* Mutant of JwtVerify: the expiry is not checked (ignoreExpiration).
JwtVerifyIgnoringExpiry(tok) == tok.kind \in {"valid", "expired"}

\* request.jwtVerify() resolves only for an unexpired token carrying the
\* server's signature; every other case throws.
JwtVerify(tok) == tok.kind = "valid"


\* ------------------------------------------------------- request pipeline
\* request.user: absent until authenticate attaches the decoded claims.
NoPrincipal == [attached |-> FALSE, userId |-> 0, id |-> 0, email |-> Null, role |-> Null]

\* A reply: HTTP status, the body's error text and whether the body carries
\* a statusCode field.  Status 0: no reply was sent, the pipeline goes on.
Reply(status, error, hasStatusCode) ==
  [status |-> status, error |-> error, hasStatusCode |-> hasStatusCode]
NoReply == Reply(0, Null, FALSE)

\* sendError(reply, statusCode, message)
sendError(statusCode, message) == Reply(statusCode, message, TRUE)

\* Mutant of getMessages: every locale gets the English messages.
getMessagesUntranslated(locale) ==
  [userNotFound |-> "User not found",
   failedToCreateUser |-> "Failed to create user",
   failedToUpdateUser |-> "Failed to update user",
   authenticationFailed |-> "Authentication failed",
   loggedOutSuccessfully |-> "Logged out successfully"]

\* The messages of a locale (those the modelled routes send).
getMessages(locale) ==
  IF locale = "es"
  THEN [userNotFound |-> "Usuario no encontrado",
        failedToCreateUser |-> "Error al crear usuario",
        failedToUpdateUser |-> "Error al actualizar usuario",
        authenticationFailed |-> "Autenticación fallida",
        loggedOutSuccessfully |-> "Sesión cerrada exitosamente"]
  ELSE [userNotFound |-> "User not found",
        failedToCreateUser |-> "Failed to create user",
        failedToUpdateUser |-> "Failed to update user",
        authenticationFailed |-> "Authentication failed",
        loggedOutSuccessfully |-> "Logged out successfully"]

\* setErrorHandler: reply.status(error.statusCode || 500).send({error:
\* error.message, statusCode}); a body failing the route's schema comes here.
errorHandler(statusCode, message) == Reply(statusCode, message, TRUE)

\* The router's answer to a path no route was registered for:
\* {message, error: 'Not Found', statusCode: 404}.
routeNotFound == Reply(404, "Not Found", TRUE)

\* The properties of userSchema; a response with a schema is serialized
\* with the schema's properties only.
userSchema == {"id", "name", "email", "oauthProvider", "oauthId", "createdAt", "updatedAt"}

\* Mutant of Serialized: responses are sent as the handler built them.
SerializedAsBuilt(schema, fields) == fields

\* The fields of an object that reach the body under a response schema.
Serialized(schema, fields) == fields \cap schema

\* reply.code(401).send({ error: 'Unauthorized' })
Unauthorized == Reply(401, "Unauthorized", FALSE)

\* Mutant of authenticate: the principal has no id alias.
authenticateWithoutId(tok) ==
  IF JwtVerify(tok)
  THEN [attached |-> TRUE, userId |-> tok.claims.userId, id |-> 0,
        email |-> tok.claims.email,
        role |-> IF tok.claims.role = Null THEN "user" ELSE tok.claims.role]
  ELSE NoPrincipal

\* authenticate: the principal attached to the request, NoPrincipal when
\* jwtVerify throws.
authenticate(tok) ==
  IF JwtVerify(tok)
  THEN [attached |-> TRUE, userId |-> tok.claims.userId, id |-> tok.claims.userId,
        email |-> tok.claims.email,
        role |-> IF tok.claims.role = Null THEN "user" ELSE tok.claims.role]
  ELSE NoPrincipal

\* Mutant of requireRole: the role is taken from the token's claims.
requireRoleFromToken(p, requiredRoles) ==
  IF ~p.attached THEN sendError(401, "Authentication required")
  ELSE IF ~Exists(p.id) THEN sendError(401, "User not found")
  ELSE IF p.role \notin requiredRoles
       THEN sendError(403, "Access denied. Required role: admin")
  ELSE NoReply

\* Mutant of requireRole: a requester without a row is merely forbidden.
requireRoleMissingIs403(p, requiredRoles) ==
  IF ~p.attached THEN sendError(401, "Authentication required")
  ELSE IF ~Exists(p.id) \/ users[p.id].role \notin requiredRoles
       THEN sendError(403, "Access denied. Required role: admin")
  ELSE NoReply

\* request.requireRole(role): the reply it sends, NoReply when it passes.
requireRole(p, requiredRoles) ==
  IF ~p.attached THEN sendError(401, "Authentication required")
  ELSE IF ~Exists(p.id) THEN sendError(401, "User not found")
  ELSE IF users[p.id].role \notin requiredRoles
       THEN sendError(403, "Access denied. Required role: admin")
  ELSE NoReply

\* onRequest: [authenticate]: a hook that replied ends the pipeline.
GuardAuth(tok) ==
  LET p == authenticate(tok)
  IN [principal |-> p, roleLookup |-> FALSE,
      reply |-> IF p.attached THEN NoReply ELSE Unauthorized]

\* onRequest: [fastify.authenticate, fastify.requireRole('admin')]
GuardAdmin(tok) ==
  LET a == GuardAuth(tok)
  IN IF a.reply.status # 0 THEN a
     ELSE [principal |-> a.principal, roleLookup |-> TRUE,
           reply |-> requireRole(a.principal, {"admin"})]

\* What a provider's endpoints answer to one adapter call: the profile
\* response (ok, and the fields of its JSON the adapters read) and, for
\* GitHub, the response of the emails endpoint.
NoUpstream ==
  [profileOk |-> FALSE, id |-> Null, email |-> Null, name |-> Null,
   login |-> Null, userPrincipalName |-> Null, emailsOk |-> FALSE,
   emails |-> <<>>]

\* OAuthUserInfo as an adapter returns it, or the error it throws.
NoIdentity == [ok |-> FALSE, error |-> Null, id |-> Null, email |-> Null, name |-> Null]
Identity(id, email, name) ==
  [ok |-> TRUE, error |-> Null, id |-> id, email |-> email, name |-> name]
Thrown(message) == [NoIdentity EXCEPT !.error = message]

\* ------------------------------------------------- the observed response
\* The request handled last: what was sent (op, tokKind, target, reqRole,
\* provider, oauthId, email), what the pipeline did (principal, roleLookup,
\* handlerRan), what it met in the table before it acted (storedRole,
\* targetExisted, roleJustSet), the response (status, error, hasStatusCode,
\* message, bodyUserId, bodyName, jwt, cookie, cookieJwt, bodyFields: the
\* fields of a user the body shows) and its effect on the table (written,
\* storeChanged, roleChanged); for a callback also the provider's token
\* (accessToken, refreshToken, expiresAt) and where it threw (fault); locale
\* is the locale detected from Accept-Language, reqName the name in the
\* body of /auth/dev/token.
Idle ==
  [op |-> "none", tokKind |-> "missing", principal |-> NoPrincipal,
   roleLookup |-> FALSE, handlerRan |-> FALSE,
   storedRole |-> Null, targetExisted |-> FALSE, roleJustSet |-> Null,
   status |-> 0, error |-> Null, hasStatusCode |-> FALSE, message |-> Null,
   target |-> 0, reqRole |-> Null,
   provider |-> Null, oauthId |-> Null, email |-> Null,
   bodyUserId |-> 0, bodyName |-> Null, jwt |-> NoClaims,
   cookie |-> "none", cookieJwt |-> NoClaims,
   written |-> {}, storeChanged |-> FALSE, roleChanged |-> FALSE,
   locale |-> "en", fault |-> "none",
   accessToken |-> Null, refreshToken |-> Null, expiresAt |-> NullTime,
   bodyFields |-> {}, reqName |-> Null,
   upstream |-> NoUpstream, identity |-> NoIdentity, requests |-> <<>>]

\* The role the table holds for the principal, Null without a row.
StoredRole(p) == IF p.attached /\ Exists(p.id) THEN users[p.id].role ELSE Null

\* The role a PATCH answered just before gave the principal, Null otherwise.
RoleJustSet(p) ==
  IF p.attached /\ last.op = "AdminSetRole" /\ last.status = 200 /\ last.target = p.id
  THEN last.reqRole ELSE Null

\* A request of kind op carrying tok, which the guard g let through or not,
\* answered by reply r; id is the row its handler, if it ran, read from the
\* path.  Read after the table's update.
Answer(op, tok, id, g, ran, r) ==
  [Idle EXCEPT !.op = op, !.tokKind = tok.kind, !.target = IF ran THEN id ELSE 0,
               !.principal = g.principal, !.roleLookup = g.roleLookup,
               !.handlerRan = ran,
               !.storedRole = StoredRole(g.principal),
               !.targetExisted = ran /\ Exists(id),
               !.roleJustSet = RoleJustSet(g.principal),
               !.status = r.status, !.error = r.error,
               !.hasStatusCode = r.hasStatusCode,
               !.storeChanged = (users' # users),
               !.roleChanged = \E i \in DOMAIN users \cap DOMAIN users' :
                                  users'[i].role # users[i].role]

\* A request to a route without authentication hook.
OpenGuard == [principal |-> NoPrincipal, roleLookup |-> FALSE, reply |-> NoReply]
NoToken == [kind |-> "missing", claims |-> NoClaims]

\* ------------------------------------------------------------ /api/users
\* request.user.id !== Number(id) && request.user.role !== 'admin'
NotSelfNorAdmin(p, id) == p.id # id /\ p.role # "admin"

\* Mutant of AdminRoleDenied: the early 403 is missing.
AdminRoleNeverDenied(p, role) == FALSE

\* role === 'admin' && request.user.role !== 'admin'
AdminRoleDenied(p, role) == role = "admin" /\ p.role # "admin"

\* role && request.user.role === 'admin' ? role : 'user'
userRole(p, role) == IF role # Null /\ p.role = "admin" THEN role ELSE "user"

\* POST /api/users with body {name, email, role?}
CreateUser(locale, tok, name, email, role) ==
  LET g == GuardAuth(tok)
      r == IF g.reply.status # 0 THEN g.reply
           ELSE IF AdminRoleDenied(g.principal, role)
                THEN sendError(403, "Insufficient permissions to create admin users")
           ELSE IF UniqueViolation(email, 0)
                THEN sendError(500, getMessages(locale).failedToCreateUser)
           ELSE Reply(201, Null, FALSE)
  IN /\ r.status = 201 => CanCreate
     /\ IF r.status = 201
        THEN /\ users' = Inserted(UserRow(name, email, userRole(g.principal, role),
                                          Null, Null, Null, Null, NullTime))
             /\ nextId' = nextId + 1
        ELSE UNCHANGED <<users, nextId>>
     /\ last' = [Answer("CreateUser", tok, 0, g, g.reply.status = 0, r)
                   EXCEPT !.reqRole = IF g.reply.status = 0 THEN role ELSE Null,
                          !.email = IF g.reply.status = 0 THEN email ELSE Null,
                          !.bodyUserId = IF r.status = 201 THEN nextId ELSE 0,
                          !.bodyFields = IF r.status = 201
                                         THEN Serialized(userSchema, Columns) ELSE {},
                          !.locale = locale]
     /\ UNCHANGED <<tokens, now, inflight>>

\* GET /api/users
ListUsers(locale, tok) ==
  LET g == GuardAuth(tok)
      r == IF g.reply.status # 0 THEN g.reply ELSE Reply(200, Null, FALSE)
  IN /\ UNCHANGED <<users, nextId, tokens, now, inflight>>
     /\ last' = [Answer("ListUsers", tok, 0, g, g.reply.status = 0, r)
                   EXCEPT !.bodyFields = IF r.status = 200 /\ DOMAIN users # {}
                                         THEN Serialized(userSchema, Columns) ELSE {},
                          !.locale = locale]

\* GET /api/users/:id
GetUser(locale, tok, id) ==
  LET g == GuardAuth(tok)
      r == IF g.reply.status # 0 THEN g.reply
           ELSE IF ~Exists(id) THEN sendError(404, getMessages(locale).userNotFound)
           ELSE Reply(200, Null, FALSE)
  IN /\ UNCHANGED <<users, nextId, tokens, now, inflight>>
     /\ last' = [Answer("GetUser", tok, id, g, g.reply.status = 0, r)
                   EXCEPT !.bodyUserId = IF r.status = 200 THEN id ELSE 0,
                          !.bodyName = IF r.status = 200 THEN users[id].name ELSE Null,
                          !.bodyFields = IF r.status = 200
                                         THEN Serialized(userSchema, Columns) ELSE {},
                          !.locale = locale]

\* The table after User.update(updateFields, {where: {id}}): only the
\* fields the body defines are written.
Updated(id, name, email) ==
  [users EXCEPT ![id].name = IF name # Null THEN name ELSE @,
                ![id].email = IF email # Null THEN email ELSE @]

\* PUT /api/users/:id with body {name?, email?}
UpdateUser(locale, tok, id, name, email) ==
  LET g == GuardAuth(tok)
      r == IF g.reply.status # 0 THEN g.reply
           ELSE IF NotSelfNorAdmin(g.principal, id)
                THEN sendError(403, "Insufficient permissions to update this user")
           ELSE IF ~Exists(id) THEN sendError(404, getMessages(locale).userNotFound)
           ELSE IF email # Null /\ UniqueViolation(email, id)
                THEN sendError(500, getMessages(locale).failedToUpdateUser)
           ELSE Reply(200, Null, FALSE)
  IN /\ users' = IF r.status = 200 THEN Updated(id, name, email) ELSE users
     /\ last' = [Answer("UpdateUser", tok, id, g, g.reply.status = 0, r)
                   EXCEPT !.email = IF g.reply.status = 0 THEN email ELSE Null,
                          !.bodyUserId = IF r.status = 200 THEN id ELSE 0,
                          !.bodyFields = IF r.status = 200
                                         THEN Serialized(userSchema, Columns) ELSE {},
                          !.locale = locale]
     /\ UNCHANGED <<nextId, tokens, now, inflight>>

\* DELETE /api/users/:id
DeleteUser(locale, tok, id) ==
  LET g == GuardAuth(tok)
      r == IF g.reply.status # 0 THEN g.reply
           ELSE IF NotSelfNorAdmin(g.principal, id)
                THEN sendError(403, "Insufficient permissions to delete this user")
           ELSE IF ~Exists(id) THEN sendError(404, getMessages(locale).userNotFound)
           ELSE Reply(204, Null, FALSE)
  IN /\ users' = IF r.status = 204 THEN Removed(id) ELSE users
     /\ last' = [Answer("DeleteUser", tok, id, g, g.reply.status = 0, r)
                   EXCEPT !.locale = locale]
     /\ UNCHANGED <<nextId, tokens, now, inflight>>

\* ------------------------------------------------------ /api/admin/users
\* GET /api/admin/users
AdminList(tok) ==
  LET g == GuardAdmin(tok)
      r == IF g.reply.status # 0 THEN g.reply ELSE Reply(200, Null, FALSE)
  IN /\ UNCHANGED <<users, nextId, tokens, now, inflight>>
     /\ last' = [Answer("AdminList", tok, 0, g, g.reply.status = 0, r)
                   EXCEPT !.bodyFields =
                     IF r.status = 200 /\ DOMAIN users # {}
                     THEN Serialized(userSchema,
                                     Columns \ {"oauthAccessToken", "oauthRefreshToken"})
                     ELSE {}]

\* PATCH /api/admin/users/:id/role with body {role}
AdminSetRole(tok, id, role) ==
  LET g == GuardAdmin(tok)
      r == IF g.reply.status # 0 THEN g.reply
           ELSE IF ~Exists(id) THEN sendError(404, "User not found")
           ELSE Reply(200, Null, FALSE)
  IN /\ users' = IF r.status = 200 THEN [users EXCEPT ![id].role = role] ELSE users
     /\ last' = [Answer("AdminSetRole", tok, id, g, g.reply.status = 0, r)
                   EXCEPT !.reqRole = IF g.reply.status = 0 THEN role ELSE Null,
                          !.bodyUserId = IF r.status = 200 THEN id ELSE 0,
                          !.bodyFields = IF r.status = 200
                                         THEN Serialized(userSchema, Columns) ELSE {}]
     /\ UNCHANGED <<nextId, tokens, now, inflight>>

\* Mutant of IsSelf: the path id is compared as a string and never matches.
IsSelfNeverMatches(p, id) == FALSE

\* request.user.id === id
IsSelf(p, id) == p.id = id

\* DELETE /api/admin/users/:id
AdminDelete(tok, id) ==
  LET g == GuardAdmin(tok)
      r == IF g.reply.status # 0 THEN g.reply
           ELSE IF IsSelf(g.principal, id)
                THEN sendError(400, "Cannot delete your own account")
           ELSE IF ~Exists(id) THEN sendError(404, "User not found")
           ELSE Reply(200, Null, FALSE)
  IN /\ users' = IF r.status = 200 THEN Removed(id) ELSE users
     /\ last' = [Answer("AdminDelete", tok, id, g, g.reply.status = 0, r)
                   EXCEPT !.message = IF r.status = 200
                                      THEN "User deleted successfully" ELSE Null]
     /\ UNCHANGED <<nextId, tokens, now, inflight>>

\* await request.requireRole(role) inside a handler: the call sends the reply
\* of requireRole, if any, and returns (return reply.code(..).send(..)); it
\* throws in no case.
awaitRequireRole(p, requiredRoles) ==
  [reply |-> requireRole(p, requiredRoles), thrown |-> FALSE]

\* A route with onRequest: [authenticate] whose handler awaits
\* request.requireRole('admin') and then removes the row `id`, the way the
\* guide shows the helper used.  The first reply sent is the response.
HandlerRequireRole(tok, id) ==
  LET a == GuardAuth(tok)
      ran == a.reply.status = 0
      c == awaitRequireRole(a.principal, {"admin"})
      rest == ran /\ ~c.thrown
      r == IF ~ran THEN a.reply
           ELSE IF c.reply.status # 0 THEN c.reply
           ELSE Reply(204, Null, FALSE)
      g == [principal |-> a.principal, roleLookup |-> ran, reply |-> r]
  IN /\ users' = IF rest /\ Exists(id) THEN Removed(id) ELSE users
     /\ last' = Answer("HandlerRequireRole", tok, id, g, ran, r)
     /\ UNCHANGED <<nextId, tokens, now, inflight>>

\* ----------------------------------------------------------------- /auth
\* The providers with credentials in the environment
\* (config.oauth.enabledProviders); a callback route exists for each.
EnabledProviders == Providers

\* fastify.oauth[provider]: the auth plugin stores an OAuth2 instance for
\* every enabled provider it has a configuration for.
oauthInstance(provider) == provider \in EnabledProviders \cap {"google", "github", "microsoft"}

\* What getAccessTokenFromAuthorizationCodeFlow can produce: a throw, or
\* {access_token, refresh_token?, expires_in?}.
ExchangeFailed == [ok |-> FALSE, access_token |-> Null, refresh_token |-> Null, expires_in |-> 0]
Exchanges ==
  {ExchangeFailed}
  \cup {[ok |-> TRUE, access_token |-> a, refresh_token |-> r, expires_in |-> e] :
          a \in AccessTokens, r \in RefreshTokens \cup {Null}, e \in ExpiresIn}

\* What fetchProviderUserInfo can produce: a throw, or {id, email, name}.
UserInfoFailed == [ok |-> FALSE, id |-> Null, email |-> Null, name |-> Null]
UserInfos ==
  {UserInfoFailed}
  \cup {[ok |-> TRUE, id |-> i, email |-> e, name |-> n] :
          i \in ProviderIds, e \in Emails, n \in Names}

\* expiresAt = now + (token.expires_in || 3600)
expiresAt(token) == now + (IF token.expires_in # 0 THEN token.expires_in ELSE DefaultExpiresIn)

\* Mutant of OAuthFields: reconciliation leaves oauthId alone.
OAuthFieldsWithoutId ==
  {"oauthProvider", "oauthAccessToken", "oauthRefreshToken", "oauthTokenExpiresAt"}

\* The columns reconciliation compares.
OAuthFields ==
  {"oauthProvider", "oauthId", "oauthAccessToken", "oauthRefreshToken", "oauthTokenExpiresAt"}

\* The value the fresh login has for an OAuth column.
Fresh(f, provider, info, token) ==
  CASE f = "oauthProvider" -> provider
    [] f = "oauthId" -> info.id
    [] f = "oauthAccessToken" -> token.access_token
    [] f = "oauthRefreshToken" -> token.refresh_token
    [] f = "oauthTokenExpiresAt" -> expiresAt(token)

\* Mutant of updateFields: the refresh token is written even when the
\* provider returned none.
updateFieldsOverwritingRefresh(u, provider, info, token) ==
  {f \in OAuthFields : u[f] # Fresh(f, provider, info, token)}

\* Mutant of updateFields: a row already linked keeps its provider and id.
updateFieldsKeepingLink(u, provider, info, token) ==
  {f \in OAuthFields :
     /\ u[f] # Fresh(f, provider, info, token)
     /\ f = "oauthRefreshToken" => token.refresh_token # Null
     /\ f \in {"oauthProvider", "oauthId"} => u[f] = Null}

\* The keys of updateFields: the OAuth columns of the stored row u that
\* differ from the fresh login (the refresh token only when one came).
updateFields(u, provider, info, token) ==
  {f \in OAuthFields :
     /\ u[f] # Fresh(f, provider, info, token)
     /\ f = "oauthRefreshToken" => token.refresh_token # Null}

\* Mutant of Reconciled: the row is overwritten with the login's defaults,
\* role included.
ReconciledWithDefaults(u, provider, info, token) ==
  [f \in DOMAIN u |->
     IF f = "role" THEN DefaultRole
     ELSE IF f \in updateFields(u, provider, info, token)
     THEN Fresh(f, provider, info, token) ELSE u[f]]

\* The row after User.update(updateFields, {where: {id: user.id}}).
Reconciled(u, provider, info, token) ==
  [f \in DOMAIN u |->
     IF f \in updateFields(u, provider, info, token)
     THEN Fresh(f, provider, info, token) ELSE u[f]]

\* The row User.findOrCreate inserts from the callback's defaults.
OAuthDefaults(provider, info, token) ==
  UserRow(info.name, info.email, DefaultRole, provider, info.id,
          token.access_token, token.refresh_token, expiresAt(token))

\* Mutant of Upserted: the table is written before the identity is known.
UpsertedUnfetched(fetched, fault) == fault \in {"none", "sign"}

\* User.findOrCreate and the reconciliation ran to their end: the exchange
\* and the identity fetch succeeded and neither database call threw.
Upserted(fetched, fault) == fetched /\ fault \in {"none", "sign"}

\* GET /auth/{provider}/callback.  The route exists for the enabled
\* providers only; info is read only after the exchange; fault is the later
\* step that throws, if one does.
OAuthCallback(locale, provider, token, info, fault) ==
  LET routed == provider \in EnabledProviders
      found == IdsByEmail(info.email)
      created == found = {}
      uid == IF created THEN nextId ELSE CHOOSE i \in found : TRUE
      fetched == routed /\ oauthInstance(provider) /\ token.ok /\ info.ok
      stored == Upserted(fetched, fault)
      ok == stored /\ fault = "none"
      r == IF ~routed THEN routeNotFound
           ELSE IF ~oauthInstance(provider) THEN sendError(503, "OAuth is not configured")
           ELSE IF ~ok THEN sendError(500, getMessages(locale).authenticationFailed)
           ELSE Reply(200, Null, FALSE)
      jwt == JwtSign(uid, info.email)
  IN /\ (stored /\ created) => CanCreate
     /\ ~token.ok => ~info.ok
     /\ ~routed => ~token.ok
     /\ fault # "none" => fetched
     /\ fault = "update" =>
          (~created /\ updateFields(users[uid], provider, info, token) # {})
     /\ IF ~stored THEN UNCHANGED <<users, nextId>>
        ELSE IF created
             THEN /\ users' = Inserted(OAuthDefaults(provider, info, token))
                  /\ nextId' = nextId + 1
             ELSE /\ users' = [users EXCEPT ![uid] = Reconciled(@, provider, info, token)]
                  /\ UNCHANGED nextId
     /\ tokens' = IF ok THEN tokens \cup {jwt} ELSE tokens
     /\ last' = [Answer("OAuthCallback", NoToken, 0, OpenGuard, routed, r)
                   EXCEPT !.provider = provider,
                          !.locale = locale,
                          !.fault = IF fetched THEN fault
                                    ELSE IF routed /\ ~token.ok THEN "exchange"
                                    ELSE IF routed /\ ~info.ok THEN "userinfo"
                                    ELSE "none",
                          !.oauthId = IF stored THEN info.id ELSE Null,
                          !.email = IF stored THEN info.email ELSE Null,
                          !.accessToken = IF stored THEN token.access_token ELSE Null,
                          !.refreshToken = IF stored THEN token.refresh_token ELSE Null,
                          !.expiresAt = IF stored THEN expiresAt(token) ELSE NullTime,
                          !.bodyUserId = IF stored THEN uid ELSE 0,
                          !.bodyName = IF ok THEN users'[uid].name ELSE Null,
                          !.bodyFields = IF ok THEN {"id", "name", "email"} ELSE {},
                          !.jwt = IF ok THEN jwt ELSE NoClaims,
                          !.cookie = IF ok THEN "set" ELSE "none",
                          !.cookieJwt = IF ok THEN jwt ELSE NoClaims,
                          !.written = IF stored /\ ~created
                                      THEN updateFields(users[uid], provider, info, token)
                                      ELSE {}]
     /\ UNCHANGED <<now, inflight>>

\* GET /auth/me
GetMe(locale, tok) ==
  LET g == GuardAuth(tok)
      r == IF g.reply.status # 0 THEN g.reply
           ELSE IF ~Exists(g.principal.userId)
                THEN sendError(404, getMessages(locale).userNotFound)
           ELSE Reply(200, Null, FALSE)
  IN /\ UNCHANGED <<users, nextId, tokens, now, inflight>>
     /\ last' = [Answer("GetMe", tok, 0, g, g.reply.status = 0, r)
                   EXCEPT !.bodyUserId = IF r.status = 200 THEN g.principal.userId ELSE 0,
                          !.bodyName = IF r.status = 200
                                       THEN users[g.principal.userId].name ELSE Null,
                          !.email = IF r.status = 200
                                    THEN users[g.principal.userId].email ELSE Null,
                          !.bodyFields =
                            IF r.status = 200
                            THEN Serialized(userSchema,
                                            {"id", "name", "email", "createdAt", "updatedAt"})
                            ELSE {},
                          !.locale = locale]

\* POST /auth/logout
Logout(locale) ==
  /\ UNCHANGED <<users, nextId, tokens, now, inflight>>
  /\ last' = [Answer("Logout", NoToken, 0, OpenGuard, TRUE, Reply(200, Null, FALSE))
                EXCEPT !.cookie = "cleared",
                       !.message = getMessages(locale).loggedOutSuccessfully,
                       !.locale = locale]

\* POST /auth/dev/token with body {email, name?}; a body without email
\* fails the route's schema (required: ['email']): the handler does not
\* run and the error handler answers.
DevToken(email, name) ==
  LET found == IdsByEmail(email)
      created == found = {}
      uid == IF created THEN nextId ELSE CHOOSE i \in found : TRUE
      ok == email # Null
      r == IF ~ok THEN errorHandler(400, "body must have required property 'email'")
           ELSE Reply(200, Null, FALSE)
      jwt == JwtSign(uid, email)
  IN /\ (ok /\ created) => CanCreate
     /\ IF ~ok THEN UNCHANGED <<users, nextId, tokens>>
        ELSE /\ IF created
                THEN /\ users' = Inserted(UserRow(IF name # Null THEN name ELSE DefaultDevName,
                                                  email, DefaultRole,
                                                  Null, Null, Null, Null, NullTime))
                     /\ nextId' = nextId + 1
                ELSE UNCHANGED <<users, nextId>>
             /\ tokens' = tokens \cup {jwt}
     /\ last' = [Answer("DevToken", NoToken, 0, OpenGuard, ok, r)
                   EXCEPT !.email = email,
                          !.reqName = IF ok THEN name ELSE Null,
                          !.bodyUserId = IF ok THEN uid ELSE 0,
                          !.bodyName = IF ok THEN users'[uid].name ELSE Null,
                          !.bodyFields = IF ok THEN Serialized(userSchema, {"id", "name", "email"})
                                         ELSE {},
                          !.jwt = IF ok THEN jwt ELSE NoClaims]
     /\ UNCHANGED <<now, inflight>>

\* ------------------------------------------------- provider adapters
\* JavaScript truthiness of a string that may be absent, and a || b.
Truthy(v) == v # Null /\ v # ""
Or(a, b) == IF Truthy(a) THEN a ELSE b
\* String(v) of a value that may be undefined.
String(v) == IF v = Null THEN "undefined" ELSE v

\* The entries of GitHub's emails answer, and the answers themselves.
EmailEntries ==
  [email : {"b@x.com", "c@x.com"}, primary : BOOLEAN, verified : BOOLEAN]
RECURSIVE ListsUpTo(_)
ListsUpTo(n) ==
  IF n = 0 THEN {<<>>}
  ELSE LET shorter == ListsUpTo(n - 1)
       IN shorter \cup {Append(l, e) : l \in {x \in shorter : Len(x) = n - 1},
                                       e \in EmailEntries}
Upstreams ==
  [profileOk : BOOLEAN, id : {Null, "p1"}, email : {Null, "", "a@x.com"},
   name : {Null, "Ann"}, login : {"ann"}, userPrincipalName : {Null, "u@x.com"},
   emailsOk : BOOLEAN, emails : ListsUpTo(MaxEmails)]

\* fetchGoogleUserInfo: one GET of the userinfo endpoint.
fetchGoogleUserInfo(u) ==
  [requests |-> <<"google/userinfo">>,
   identity |-> IF ~u.profileOk THEN Thrown("Failed to fetch Google user info")
                ELSE Identity(u.id, u.email, u.name)]

\* Mutant of primaryEmail: the first primary entry, verified or not.
primaryEmailUnverified(emails) ==
  LET I == {i \in 1..Len(emails) : emails[i].primary}
  IN IF I = {} THEN Null ELSE emails[CHOOSE i \in I : \A j \in I : i <= j].email

\* emails.find((e) => e.primary && e.verified)?.email
primaryEmail(emails) ==
  LET I == {i \in 1..Len(emails) : emails[i].primary /\ emails[i].verified}
  IN IF I = {} THEN Null ELSE emails[CHOOSE i \in I : \A j \in I : i <= j].email

\* emails[0]?.email
firstEmail(emails) == IF Len(emails) = 0 THEN Null ELSE emails[1].email

\* Mutant of needsEmails: the emails endpoint is asked on every call.
needsEmailsAlways(email) == TRUE

\* if (!email): the profile carries no email.
needsEmails(email) == ~Truthy(email)

\* fetchGitHubUserInfo: GET /user, then GET /user/emails when the profile has
\* no email.
fetchGitHubUserInfo(u) ==
  LET asked == u.profileOk /\ needsEmails(u.email)
      email == IF asked /\ u.emailsOk
               THEN Or(primaryEmail(u.emails), firstEmail(u.emails))
               ELSE u.email
  IN [requests |-> <<"github/user">>
                     \o (IF asked THEN <<"github/user/emails">> ELSE <<>>),
      identity |-> IF ~u.profileOk THEN Thrown("Failed to fetch GitHub user info")
                   ELSE IF ~Truthy(email) THEN Thrown("No email found in GitHub account")
                   ELSE Identity(String(u.id), email, Or(u.name, u.login))]

\* fetchMicrosoftUserInfo: one GET of /me; mail || userPrincipalName.
fetchMicrosoftUserInfo(u) ==
  [requests |-> <<"graph/me">>,
   identity |-> IF ~u.profileOk THEN Thrown("Failed to fetch Microsoft user info")
                ELSE Identity(u.id, Or(u.email, u.userPrincipalName), u.name)]

\* fetchProviderUserInfo(provider, accessToken)
fetchProviderUserInfo(provider, u) ==
  IF provider = "google" THEN fetchGoogleUserInfo(u)
  ELSE IF provider = "github" THEN fetchGitHubUserInfo(u)
  ELSE IF provider = "microsoft" THEN fetchMicrosoftUserInfo(u)
  ELSE [requests |-> <<>>, identity |-> Thrown("Unsupported provider")]

\* One call of the adapter on the answers the provider is about to give.
FetchProviderUserInfo ==
  LET f == fetchProviderUserInfo(last.provider, last.upstream)
  IN /\ last' = [last EXCEPT !.op = "fetchProviderUserInfo",
                             !.identity = f.identity, !.requests = f.requests]
     /\ UNCHANGED <<users, nextId, tokens, now, inflight>>

\* ---------------------------------------------------- requests in flight
\* Node runs one handler at a time but hands over at every await: between
\* two database calls of one request, any step of another may run.  The
\* actions below are the stretches between the awaited database calls of a
\* callback and of the two admin mutations.
Slots == 1..MaxInFlight
NoRow == UserRow(Null, Null, Null, Null, Null, Null, Null, NullTime)

\* A request in flight: where it stands (pc), what it was sent (route,
\* locale, target, role, email), who sent it (requester), the row its last
\* read returned (userId, row), and its response once sent.
IdleRequest ==
  [pc |-> "idle", route |-> "none", locale |-> "en", requester |-> 0,
   target |-> 0, role |-> Null, email |-> Null, userId |-> 0, row |-> NoRow,
   status |-> 0, error |-> Null, bodyUserId |-> 0]
NoneInFlight == [s \in Slots |-> IdleRequest]
Sent(q, r) == [q EXCEPT !.pc = "done", !.status = r.status, !.error = r.error]

\* The code exchange and the identity of the racing logins.
RaceExchange ==
  [ok |-> TRUE, access_token |-> "at1", refresh_token |-> Null, expires_in |-> 7200]
RaceUserInfo(email) == [ok |-> TRUE, id |-> "p1", email |-> email, name |-> "Ann"]

\* Callback up to the SELECT of User.findOrCreate({where: {email}}).
CallbackFind(s, locale, email) ==
  LET found == IdsByEmail(email)
      q == [IdleRequest EXCEPT !.route = "callback", !.locale = locale,
                               !.email = email]
  IN /\ inflight[s].pc \in {"idle", "done"}
     /\ inflight' =
          [inflight EXCEPT ![s] =
             IF found = {} THEN [q EXCEPT !.pc = "insert"]
             ELSE LET i == CHOOSE i \in found : TRUE
                  IN [q EXCEPT !.pc = "reconcile", !.userId = i, !.row = users[i]]]
     /\ UNCHANGED <<users, nextId, tokens, now, last>>

\* Mutant of AfterViolation: the insert is taken to have succeeded.
AfterViolationAsCreated(q) ==
  Sent([q EXCEPT !.userId = nextId, !.bodyUserId = nextId], Reply(200, Null, FALSE))

\* findOrCreate after its INSERT met the unique index: it looks the row up
\* again.
AfterViolation(q) == [q EXCEPT !.pc = "refind"]

\* The INSERT of findOrCreate; a created user goes straight to the token and
\* the response.  On a unique violation findOrCreate either looks the row
\* up again or lets the error reach the callback's catch.
CallbackInsert(s) ==
  LET q == inflight[s]
      info == RaceUserInfo(q.email)
  IN /\ q.pc = "insert"
     /\ IF UniqueViolation(q.email, 0)
        THEN /\ \E recovers \in BOOLEAN :
                  inflight' =
                    [inflight EXCEPT ![s] =
                       IF recovers THEN AfterViolation(q)
                       ELSE Sent(q, sendError(500,
                                   getMessages(q.locale).authenticationFailed))]
             /\ UNCHANGED <<users, nextId, tokens>>
        ELSE /\ CanCreate
             /\ users' = Inserted(OAuthDefaults("google", info, RaceExchange))
             /\ nextId' = nextId + 1
             /\ tokens' = tokens \cup {JwtSign(nextId, q.email)}
             /\ inflight' =
                  [inflight EXCEPT ![s] =
                     Sent([q EXCEPT !.userId = nextId, !.bodyUserId = nextId],
                          Reply(200, Null, FALSE))]
     /\ UNCHANGED <<now, last>>

\* The second SELECT of findOrCreate, after the unique violation.
CallbackRefind(s) ==
  LET q == inflight[s]
      found == IdsByEmail(q.email)
  IN /\ q.pc = "refind"
     /\ inflight' =
          [inflight EXCEPT ![s] =
             IF found = {}
             THEN Sent(q, sendError(500, getMessages(q.locale).authenticationFailed))
             ELSE LET i == CHOOSE i \in found : TRUE
                  IN [q EXCEPT !.pc = "reconcile", !.userId = i, !.row = users[i]]]
     /\ UNCHANGED <<users, nextId, tokens, now, last>>

\* if (!created): updateFields from the row as it was read, User.update by
\* id, then the token and the response.
CallbackReconcile(s) ==
  LET q == inflight[s]
      info == RaceUserInfo(q.email)
      fields == updateFields(q.row, "google", info, RaceExchange)
  IN /\ q.pc = "reconcile"
     /\ users' =
          IF fields # {} /\ Exists(q.userId)
          THEN [users EXCEPT ![q.userId] =
                  [f \in DOMAIN @ |->
                     IF f \in fields THEN Fresh(f, "google", info, RaceExchange)
                     ELSE @[f]]]
          ELSE users
     /\ tokens' = tokens \cup {JwtSign(q.userId, q.row.email)}
     /\ inflight' =
          [inflight EXCEPT ![s] =
             Sent([q EXCEPT !.bodyUserId = q.userId], Reply(200, Null, FALSE))]
     /\ UNCHANGED <<nextId, now, last>>

\* onRequest: [authenticate, requireRole('admin')] of PATCH /:id/role
\* (route "patch") and DELETE /:id (route "delete") under /api/admin/users.
AdminCheck(s, tok, route, id, role) ==
  LET g == GuardAdmin(tok)
      q == [IdleRequest EXCEPT !.route = route, !.requester = g.principal.id,
                               !.target = id, !.role = role]
  IN /\ inflight[s].pc \in {"idle", "done"}
     /\ inflight' =
          [inflight EXCEPT ![s] =
             IF g.reply.status # 0 THEN Sent(q, g.reply)
             ELSE [q EXCEPT !.pc = "handler"]]
     /\ UNCHANGED <<users, nextId, tokens, now, last>>

\* The handler up to User.findByPk(id): DELETE refuses the requester's own
\* id first; a missing row is answered 404.
AdminFind(s) ==
  LET q == inflight[s]
  IN /\ q.pc = "handler"
     /\ inflight' =
          [inflight EXCEPT ![s] =
             IF q.route = "delete" /\ IsSelf([id |-> q.requester], q.target)
             THEN Sent(q, sendError(400, "Cannot delete your own account"))
             ELSE IF ~Exists(q.target) THEN Sent(q, sendError(404, "User not found"))
             ELSE [q EXCEPT !.pc = "write", !.userId = q.target,
                            !.row = users[q.target]]]
     /\ UNCHANGED <<users, nextId, tokens, now, last>>

\* user.role = role; await user.save() (an UPDATE by id of the changed
\* column, none when the instance did not change), or await user.destroy()
\* (a DELETE by id); then the 200.
AdminWrite(s) ==
  LET q == inflight[s]
  IN /\ q.pc = "write"
     /\ users' =
          IF ~Exists(q.target) THEN users
          ELSE IF q.route = "delete" THEN Removed(q.target)
          ELSE IF q.row.role # q.role THEN [users EXCEPT ![q.target].role = q.role]
          ELSE users
     /\ inflight' = [inflight EXCEPT ![s] = Sent(q, Reply(200, Null, FALSE))]
     /\ UNCHANGED <<nextId, tokens, now, last>>

\* Time passes between requests.
Tick ==
  /\ now < MaxTime
  /\ now' = now + 1
  /\ UNCHANGED <<users, nextId, tokens, last, inflight>>

\* --------------------------------------------------------- specification
\* The table holds one seeded account (roles are only ever granted by an
\* admin, so the first admin is provisioned with the database); nobody has
\* logged in yet.
Init ==
  /\ \E r \in Roles :
       users = [i \in {1} |-> UserRow("Ann", "a@x.com", r, Null, Null, Null, Null, NullTime)]
  /\ nextId = 2
  /\ tokens = {}
  /\ now = 0
  /\ last = Idle
  /\ inflight = NoneInFlight

\* Requests in any order and with any token, each handled to its response
\* before the next; logins come with one kind of provider token.
PlainExchanges == {ExchangeFailed} \cup {t \in Exchanges : t.ok /\ t.access_token = "at1"
                                           /\ t.refresh_token = Null /\ t.expires_in = 0}
PlainUserInfos == {UserInfoFailed} \cup {i \in UserInfos : i.ok /\ i.id = "p1" /\ i.name = "Ann"}

Next ==
  \/ \E p \in {"google"}, t \in PlainExchanges, i \in PlainUserInfos :
       OAuthCallback("en", p, t, i, "none")
  \/ \E e \in Emails \cup {Null} : DevToken(e, Null)
  \/ Logout("en")
  \/ \E t \in BearerTokens : GetMe("en", t)
  \/ \E t \in BearerTokens, e \in Emails, r \in Roles \cup {Null} :
       CreateUser("en", t, "Bob", e, r)
  \/ \E t \in BearerTokens, id \in Ids, n \in {"Bob", Null}, e \in {Null} :
       UpdateUser("en", t, id, n, e)
  \/ \E t \in BearerTokens, id \in Ids : DeleteUser("en", t, id)
  \/ \E t \in BearerTokens : AdminList(t)
  \/ \E t \in BearerTokens, id \in Ids, r \in Roles : AdminSetRole(t, id, r)
  \/ \E t \in BearerTokens, id \in Ids : AdminDelete(t, id)

Spec == Init /\ [][Next]_vars

\* Logins for the enabled providers with every kind of provider token,
\* while time passes.
LoginUserInfos ==
  {UserInfoFailed} \cup {i \in UserInfos : i.ok /\ i.email = "b@x.com" /\ i.name = "Ann"}

NextLogin ==
  \/ \E p \in EnabledProviders, t \in Exchanges, i \in LoginUserInfos :
       OAuthCallback("en", p, t, i, "none")
  \/ \E e \in Emails \cup {Null} : DevToken(e, Null)
  \/ Logout("en")
  \/ Tick

SpecLogin == Init /\ [][NextLogin]_vars

\* Callbacks in every locale, for every provider the configuration knows,
\* failing at every step that can fail.
NextFailure ==
  \/ \E l \in Locales, p \in KnownProviders, t \in PlainExchanges, i \in PlainUserInfos,
        f \in Faults :
       OAuthCallback(l, p, t, i, f)
  \/ \E e \in Emails : DevToken(e, Null)
  \/ \E l \in Locales : Logout(l)

SpecFailure == Init /\ [][NextFailure]_vars

\* Accounts created, renamed to another email and logged into, with genuine
\* tokens: every way a row gets or changes its email.
NextEmail ==
  \/ \E p \in {"google"}, t \in PlainExchanges, i \in PlainUserInfos :
       OAuthCallback("en", p, t, i, "none")
  \/ \E e \in Emails : DevToken(e, Null)
  \/ \E l \in Locales, t \in GenuineTokens, e \in Emails :
       CreateUser(l, t, "Bob", e, Null)
  \/ \E t \in GenuineTokens, id \in Ids, e \in Emails : UpdateUser("en", t, id, Null, e)
  \/ \E t \in GenuineTokens, id \in Ids : DeleteUser("en", t, id)

SpecEmail == Init /\ [][NextEmail]_vars

\* Accounts made by /auth/dev/token with or without a name, linked by a
\* login, renamed, deleted and read back through every route that shows a
\* user, in every locale, with genuine tokens.
NextAccount ==
  \/ \E p \in {"google"}, t \in PlainExchanges, i \in PlainUserInfos :
       OAuthCallback("en", p, t, i, "none")
  \/ \E e \in Emails \cup {Null}, n \in {"Bob", Null} : DevToken(e, n)
  \/ \E l \in Locales, t \in GenuineTokens : GetMe(l, t)
  \/ \E l \in Locales, t \in GenuineTokens : ListUsers(l, t)
  \/ \E l \in Locales, t \in GenuineTokens, id \in Ids : GetUser(l, t, id)
  \/ \E t \in GenuineTokens, e \in Emails : CreateUser("en", t, "Ann", e, Null)
  \/ \E t \in GenuineTokens, id \in Ids : UpdateUser("en", t, id, "Bob", Null)
  \/ \E t \in GenuineTokens, id \in Ids : DeleteUser("en", t, id)
  \/ \E t \in GenuineTokens : AdminList(t)
  \/ \E t \in GenuineTokens, id \in Ids, r \in Roles : AdminSetRole(t, id, r)

SpecAccount == Init /\ [][NextAccount]_vars

\* Every supported adapter called once on every answer its provider can give.
InitAdapter ==
  /\ \E r \in Roles :
       users = [i \in {1} |-> UserRow("Ann", "a@x.com", r, Null, Null, Null, Null, NullTime)]
  /\ nextId = 2
  /\ tokens = {}
  /\ now = 0
  /\ last \in {[Idle EXCEPT !.provider = p, !.upstream = u] :
                  p \in KnownProviders, u \in Upstreams}
  /\ inflight = NoneInFlight

NextAdapter == FetchProviderUserInfo

SpecAdapter == InitAdapter /\ [][NextAdapter]_vars

\* Accounts made by logins, and requests to a route whose handler checks the
\* role itself.
NextHandler ==
  \/ \E p \in {"google"}, t \in PlainExchanges, i \in PlainUserInfos :
       OAuthCallback("en", p, t, i, "none")
  \/ \E e \in Emails : DevToken(e, Null)
  \/ \E t \in GenuineTokens, id \in Ids : HandlerRequireRole(t, id)

SpecHandler == Init /\ [][NextHandler]_vars

\* Logins handled at the same time, interleaved at their database calls.
NextCallbackRace ==
  \/ \E s \in Slots, l \in Locales, e \in Emails : CallbackFind(s, l, e)
  \/ \E s \in Slots : CallbackInsert(s)
  \/ \E s \in Slots : CallbackRefind(s)
  \/ \E s \in Slots : CallbackReconcile(s)

SpecCallbackRace == Init /\ [][NextCallbackRace]_vars

\* Two accounts, at least one of them an admin, each holding a token.
InitRace ==
  /\ \E r1, r2 \in Roles :
       /\ "admin" \in {r1, r2}
       /\ users = [i \in {1, 2} |->
                     IF i = 1
                     THEN UserRow("Ann", "a@x.com", r1, Null, Null, Null, Null, NullTime)
                     ELSE UserRow("Bob", "b@x.com", r2, Null, Null, Null, Null, NullTime)]
  /\ nextId = 3
  /\ tokens = {JwtSign(1, "a@x.com"), JwtSign(2, "b@x.com")}
  /\ now = 0
  /\ last = Idle
  /\ inflight = NoneInFlight

\* Role changes and deletions on the admin surface handled at the same time.
NextAdminRace ==
  \/ \E s \in Slots, t \in GenuineTokens, id \in Ids, r \in Roles :
       AdminCheck(s, t, "patch", id, r)
  \/ \E s \in Slots, t \in GenuineTokens, id \in Ids :
       AdminCheck(s, t, "delete", id, Null)
  \/ \E s \in Slots : AdminFind(s)
  \/ \E s \in Slots : AdminWrite(s)

SpecAdminRace == InitRace /\ [][NextAdminRace]_vars

\* DELETE /api/admin/users/:id requests alone, handled at the same time.
NextDeleteRace ==
  \/ \E s \in Slots, t \in GenuineTokens, id \in Ids :
       AdminCheck(s, t, "delete", id, Null)
  \/ \E s \in Slots : AdminFind(s)
  \/ \E s \in Slots : AdminWrite(s)

SpecDeleteRace == InitRace /\ [][NextDeleteRace]_vars

\* ----------------------------------------------------------------- claims
GuardedOps ==
  {"GetMe", "CreateUser", "UpdateUser", "DeleteUser", "AdminList", "AdminSetRole", "AdminDelete"}
AdminOps == {"AdminList", "AdminSetRole", "AdminDelete"}
SelfOrAdminOps == {"UpdateUser", "DeleteUser"}

\* C1: on every route behind authenticate, a request whose token is missing,
\* malformed, expired or wrongly signed gets one and the same 401 response,
\* no principal is attached, requireRole's lookup and the handler do not run
\* and the table is unchanged.
C1_RejectedTokenHalts ==
  (last.op \in GuardedOps /\ last.tokKind # "valid") =>
    /\ last.status = 401 /\ last.error = "Unauthorized" /\ ~last.hasStatusCode
    /\ ~last.principal.attached
    /\ ~last.roleLookup /\ ~last.handlerRan
    /\ ~last.storeChanged

\* C1 witness: an admin delete attempted with an expired token was answered.
C1_Witness ==
  last.op = "AdminDelete" /\ last.tokKind = "expired" /\ last.status = 401

\* C2: requireRole('admin') judges the requester by the role the table holds
\* when it checks, not by the token (whose role claim is always 'user' here):
\* 403 and no handler when the stored role is not admin, the handler when it
\* is; so the request right after a PATCH of the requester's role is judged
\* by the role that PATCH stored.
C2_RoleFromStore ==
  (last.op \in AdminOps /\ last.principal.attached /\ last.storedRole # Null) =>
    /\ last.storedRole # "admin" => (last.status = 403 /\ ~last.handlerRan)
    /\ last.storedRole = "admin" => (last.handlerRan /\ last.status # 403)
    /\ last.roleJustSet # Null => (last.handlerRan <=> last.roleJustSet = "admin")

\* C2 witness: account 2, created as 'user', reaches an admin handler with a
\* token signed before the PATCH that has just promoted it.
C2_Witness ==
  /\ last.op \in AdminOps /\ last.principal.id = 2 /\ last.principal.role = "user"
  /\ last.roleJustSet = "admin" /\ last.handlerRan

\* C3: a valid token whose userId has no row any more is answered 401 by
\* requireRole and the admin handler does not run.
C3_MissingRequesterIs401 ==
  (last.op \in AdminOps /\ last.principal.attached /\ last.storedRole = Null) =>
    /\ last.status = 401 /\ last.roleLookup
    /\ ~last.handlerRan /\ ~last.storeChanged

\* C3 witness: an admin delete by a requester whose row is gone.
C3_Witness ==
  /\ last.op = "AdminDelete" /\ last.tokKind = "valid" /\ last.principal.attached
  /\ ~Exists(last.principal.id) /\ last.status = 401

\* C4 (as claimed): PUT and DELETE /api/users/:id are permitted exactly when
\* the requester is the target or the requester's stored role is admin;
\* everyone else gets 403 and the table is unchanged.
C4_SelfOrStoredAdmin ==
  (last.op \in SelfOrAdminOps /\ last.principal.attached) =>
    /\ last.status # 403 <=> (last.principal.id = last.target \/ last.storedRole = "admin")
    /\ last.status = 403 => ~last.storeChanged

\* C5 (as claimed): on PUT and DELETE /api/users/:id a non-admin aiming at
\* another id gets 403 whether or not the id exists, an admin aiming at an id
\* without a row gets 404, and no row changes in either case.
C5_PermissionBeforeExistence ==
  (last.op \in SelfOrAdminOps /\ last.principal.attached) =>
    /\ (last.storedRole # "admin" /\ last.target # last.principal.id)
         => (last.status = 403 /\ ~last.storeChanged)
    /\ (last.storedRole = "admin" /\ ~last.targetExisted)
         => (last.status = 404 /\ ~last.storeChanged)

C7_AdminDeleteCases ==
  (last.op = "AdminDelete" /\ last.storedRole = "admin") =>
    /\ last.target = last.principal.id =>
         (last.status = 400 /\ Exists(last.principal.id) /\ ~last.storeChanged)
    /\ (last.target # last.principal.id /\ last.targetExisted) =>
         /\ last.status = 200 /\ last.message = "User deleted successfully"
         /\ ~Exists(last.target) /\ Exists(last.principal.id)
    /\ (last.target # last.principal.id /\ ~last.targetExisted) =>
         (last.status = 404 /\ ~last.storeChanged)

\* C7 witness: an admin deleted another account.
C7_Witness ==
  /\ last.op = "AdminDelete" /\ last.storedRole = "admin" /\ last.status = 200
  /\ last.target # last.principal.id /\ last.storeChanged

\* C8: the role of an existing row changes only in a successful PATCH
\* /api/admin/users/:id/role by a requester whose stored role is admin (not
\* in PUT /api/users/:id, a callback's reconciliation or /auth/dev/token),
\* and every stored role is 'user' or 'admin'.
C8_RoleOnlyByAdminPatch ==
  /\ last.roleChanged =>
       (last.op = "AdminSetRole" /\ last.status = 200 /\ last.storedRole = "admin")
  /\ \A i \in DOMAIN users : users[i].role \in Roles

\* C8 witness: a callback reconciled the row of an admin, who is admin still.
C8_Witness ==
  /\ last.op = "OAuthCallback" /\ last.status = 200 /\ last.written # {}
  /\ users[last.bodyUserId].role = "admin"

C10_CallbackLinksOneRow ==
  /\ (last.op = "OAuthCallback" /\ last.status = 200) =>
       /\ IdsByEmail(last.email) = {last.bodyUserId}
       /\ users[last.bodyUserId].oauthProvider = last.provider
       /\ users[last.bodyUserId].oauthId = last.oauthId
       /\ last.jwt.userId = last.bodyUserId
       /\ last.cookie = "set" /\ last.cookieJwt = last.jwt
  /\ last.cookie = "set" => (last.op = "OAuthCallback" /\ last.status = 200)

\* C10 witness: a callback succeeded for a row linked before (its access
\* token is the stored one) to another provider and another provider id.
C10_Witness ==
  /\ last.op = "OAuthCallback" /\ last.status = 200
  /\ {"oauthProvider", "oauthId"} \subseteq last.written
  /\ "oauthAccessToken" \notin last.written

\* A step that handles a request: every step but the clock's.
RequestStep == now' = now

\* C11 (as claimed): a callback for an existing row with the provider, the
\* provider id and the access token the row holds, and no new refresh token,
\* writes nothing.
C11_UnchangedReloginWritesNothing ==
  [][(/\ RequestStep /\ last'.op = "OAuthCallback" /\ last'.status = 200
      /\ Exists(last'.bodyUserId)
      /\ users[last'.bodyUserId].oauthProvider = last'.provider
      /\ users[last'.bodyUserId].oauthId = last'.oauthId
      /\ users[last'.bodyUserId].oauthAccessToken = last'.accessToken
      /\ last'.refreshToken \in {Null, users[last'.bodyUserId].oauthRefreshToken})
     => (last'.written = {} /\ users' = users)]_vars

\* C12: a successful callback for an existing row writes exactly the OAuth
\* columns whose stored value differs from the login's, the refresh token
\* only when the provider returned one; afterwards the row holds the login's
\* provider, id, access token and expiry, and its name, email and role, its
\* id and every other row are as before.
C12_ReconciliationFrame ==
  [][(/\ RequestStep /\ last'.op = "OAuthCallback" /\ last'.status = 200
      /\ Exists(last'.bodyUserId)) =>
       LET u == users[last'.bodyUserId]
           v == users'[last'.bodyUserId]
       IN /\ DOMAIN users' = DOMAIN users
          /\ \A i \in DOMAIN users \ {last'.bodyUserId} : users'[i] = users[i]
          /\ \A f \in OAuthFields : (f \in last'.written) <=> (v[f] # u[f])
          /\ v.oauthProvider = last'.provider /\ v.oauthId = last'.oauthId
          /\ v.oauthAccessToken = last'.accessToken
          /\ v.oauthTokenExpiresAt = last'.expiresAt
          /\ v.oauthRefreshToken = IF last'.refreshToken # Null
                                   THEN last'.refreshToken ELSE u.oauthRefreshToken
          /\ v.name = u.name /\ v.email = u.email /\ v.role = u.role]_vars

\* C12 witness: a login with a new access token and no refresh token was
\* reconciled into a row that keeps the refresh token it held.
C12_Witness ==
  /\ last.op = "OAuthCallback" /\ last.status = 200
  /\ "oauthAccessToken" \in last.written /\ "oauthProvider" \notin last.written
  /\ last.refreshToken = Null
  /\ users[last.bodyUserId].oauthRefreshToken = "rt1"

C14_UniformFailure ==
  [][(RequestStep /\ last'.op = "OAuthCallback" /\ last'.fault # "none") =>
       /\ last'.status = 500 /\ last'.error = "Authentication failed"
       /\ last'.hasStatusCode
       /\ last'.jwt = NoClaims /\ last'.cookie = "none" /\ tokens' = tokens
       /\ last'.fault \in {"exchange", "userinfo"} =>
            (users' = users /\ nextId' = nextId)]_vars

\* C14 (amended): whichever step of a callback fails after the provider
\* check, the response is 500 with the 'authentication failed' message of
\* the request's locale ('Authentication failed' in English) and nothing
\* of the cause; when the code exchange or the identity fetch failed, no row
\* is created or modified, no JWT is issued and no cookie is set.
C14_UniformLocalizedFailure ==
  [][(RequestStep /\ last'.op = "OAuthCallback" /\ last'.fault # "none") =>
       /\ last'.status = 500
       /\ last'.error = IF last'.locale = "es" THEN "Autenticación fallida"
                        ELSE "Authentication failed"
       /\ last'.hasStatusCode
       /\ last'.jwt = NoClaims /\ last'.cookie = "none" /\ tokens' = tokens
       /\ last'.fault \in {"exchange", "userinfo"} =>
            (users' = users /\ nextId' = nextId)]_vars

\* C14 witness: a callback with Accept-Language es whose identity fetch
\* threw was answered.
C14_Witness ==
  /\ last.op = "OAuthCallback" /\ last.fault = "userinfo" /\ last.locale = "es"
  /\ last.status = 500

\* C15 (as claimed): a callback request for a provider without OAuth client
\* instance is answered 503.
C15_UnconfiguredIs503 ==
  (last.op = "OAuthCallback" /\ ~oauthInstance(last.provider)) => last.status = 503

\* C16: no response body shows a user's oauthAccessToken or
\* oauthRefreshToken, and the JWT in a body holds neither.
C16_NoProviderTokensInBodies ==
  /\ last.bodyFields \cap {"oauthAccessToken", "oauthRefreshToken"} = {}
  /\ \A i \in DOMAIN users :
       {users[i].oauthAccessToken, users[i].oauthRefreshToken}
         \cap {last.jwt.email, last.jwt.role, last.bodyName, last.message, last.error}
         \subseteq {Null}

\* C16 witness: the user list was returned while a row holds a provider's
\* access token.
C16_Witness ==
  /\ last.op = "ListUsers" /\ last.status = 200 /\ last.bodyFields # {}
  /\ \E i \in DOMAIN users : users[i].oauthAccessToken # Null

\* C17 (as claimed): every response with a status of 400 or more has a body
\* with an error text and a statusCode.
C17_UniformErrorShape ==
  last.status >= 400 => (last.error # Null /\ last.hasStatusCode)

\* C18: presenting a token the server signed for {userId, email} attaches a
\* principal with that userId and email, id equal to userId and, the token
\* carrying no role, role 'user'; the token in a login's response is signed
\* for the user in that response.
C18_TokenRoundTrip ==
  /\ \A c \in tokens :
       LET p == authenticate([kind |-> "valid", claims |-> c])
       IN /\ p.attached /\ p.userId = c.userId /\ p.id = c.userId
          /\ p.email = c.email
          /\ c.role = Null => p.role = "user"
  /\ (last.op \in {"OAuthCallback", "DevToken"} /\ last.status = 200) =>
       /\ last.jwt \in tokens
       /\ last.jwt.userId = last.bodyUserId /\ last.jwt.email = last.email
  /\ (last.op \in GuardedOps /\ last.tokKind = "valid") =>
       /\ last.principal.attached /\ last.principal.id = last.principal.userId
       /\ \E c \in tokens : /\ last.principal.userId = c.userId
                            /\ last.principal.email = c.email

\* C18 witness: a token signed at a login for the account that login
\* created was presented to /auth/me.
C18_Witness ==
  /\ last.op = "GetMe" /\ last.tokKind = "valid" /\ last.status = 200
  /\ last.principal.userId = 2 /\ last.principal.role = "user"

\* C19 (as claimed): /auth/me with a valid token whose user has no row
\* answers 404 {error: 'User not found', statusCode: 404}; with a token of an
\* existing user it returns the row's id, name and email as stored, with
\* createdAt and updatedAt.
C19_MeNotFoundBody ==
  (last.op = "GetMe" /\ last.principal.attached) =>
    IF Exists(last.principal.userId)
    THEN /\ last.status = 200 /\ last.bodyUserId = last.principal.userId
         /\ last.bodyName = users[last.bodyUserId].name
         /\ last.email = users[last.bodyUserId].email
         /\ last.bodyFields = {"id", "name", "email", "createdAt", "updatedAt"}
    ELSE /\ last.status = 404 /\ last.error = "User not found"
         /\ last.hasStatusCode

\* C19 (amended): as C19, the error being the 'user not found' message of
\* the request's locale ('User not found' in English).
C19_MeLocalizedNotFound ==
  (last.op = "GetMe" /\ last.principal.attached) =>
    IF Exists(last.principal.userId)
    THEN /\ last.status = 200 /\ last.bodyUserId = last.principal.userId
         /\ last.bodyName = users[last.bodyUserId].name
         /\ last.email = users[last.bodyUserId].email
         /\ last.bodyFields = {"id", "name", "email", "createdAt", "updatedAt"}
    ELSE /\ last.status = 404
         /\ last.error = IF last.locale = "es" THEN "Usuario no encontrado"
                         ELSE "User not found"
         /\ last.hasStatusCode

\* C19 witness: /auth/me with Accept-Language es and the token of a deleted
\* user was answered.
C19_Witness ==
  /\ last.op = "GetMe" /\ last.tokKind = "valid" /\ last.locale = "es"
  /\ ~Exists(last.principal.userId) /\ last.status = 404

\* C20: /auth/dev/token with an email answers 200 with the id and the stored
\* name of the one row that holds the email; when the row was there before,
\* nothing is written, whatever name the body carries, so a call repeated
\* right away returns the same id and name; without an email it answers 400
\* and creates nothing.
C20_DevTokenIdempotent ==
  [][(RequestStep /\ last'.op = "DevToken") =>
       IF last'.email = Null
       THEN last'.status = 400 /\ users' = users /\ nextId' = nextId
       ELSE /\ last'.status = 200
            /\ {i \in DOMAIN users' : users'[i].email = last'.email} = {last'.bodyUserId}
            /\ last'.bodyName = users'[last'.bodyUserId].name
            /\ IdsByEmail(last'.email) # {} =>
                 /\ users' = users /\ nextId' = nextId
                 /\ IdsByEmail(last'.email) = {last'.bodyUserId}
            /\ (last.op = "DevToken" /\ last.status = 200 /\ last.email = last'.email) =>
                 /\ last'.bodyUserId = last.bodyUserId
                 /\ last'.bodyName = last.bodyName]_vars

\* C20 witness: a second call for an email, now with a name, returned the
\* name the first call stored.
C20_Witness ==
  /\ last.op = "DevToken" /\ last.status = 200
  /\ last.reqName = "Bob" /\ last.bodyName = DefaultDevName

\* C21 (as claimed): POST /api/users with an email that an existing user
\* holds answers 500 with the message 'Failed to create user' and leaves the
\* table as it was: no row added, no row modified.
C21_DuplicateCreateIs500 ==
  [][(RequestStep /\ last'.op = "CreateUser" /\ last'.handlerRan
      /\ last'.status # 403
      /\ \E i \in DOMAIN users : users[i].email = last'.email)
     => (/\ last'.status = 500 /\ last'.error = "Failed to create user"
         /\ last'.hasStatusCode
         /\ users' = users /\ nextId' = nextId)]_vars

\* C21 (amended): as C21, the message being the 'failed to create user'
\* message of the request's locale ('Failed to create user' in English).
C21_DuplicateCreateLocalized500 ==
  [][(RequestStep /\ last'.op = "CreateUser" /\ last'.handlerRan
      /\ last'.status # 403
      /\ \E i \in DOMAIN users : users[i].email = last'.email)
     => (/\ last'.status = 500
         /\ last'.error = IF last'.locale = "es" THEN "Error al crear usuario"
                          ELSE "Failed to create user"
         /\ last'.hasStatusCode
         /\ users' = users /\ nextId' = nextId)]_vars

\* C21 witness: a POST /api/users with Accept-Language es for an email that
\* a row holds was answered 500 while there was room for another row.
C21_Witness ==
  /\ last.op = "CreateUser" /\ last.handlerRan /\ last.status = 500
  /\ last.locale = "es" /\ CanCreate
  /\ \E i \in DOMAIN users : users[i].email = last.email

\* C22: the GitHub adapter, its profile request having succeeded, takes the
\* profile's email when there is one; otherwise, from the emails list, the
\* first entry that is primary and verified, else the first entry; when no
\* email results (emails request unsuccessful or list empty) it throws the
\* no-email error and returns no identity.  The name is the profile's name,
\* or its login when the name is absent.
C22_GitHubEmailResolution ==
  (last.op = "fetchProviderUserInfo" /\ last.provider = "github"
   /\ last.upstream.profileOk) =>
    LET u == last.upstream
        l == u.emails
        PV == {i \in 1..Len(l) : l[i].primary /\ l[i].verified}
        resolved ==
          IF u.email \notin {Null, ""} THEN u.email
          ELSE IF ~u.emailsOk \/ Len(l) = 0 THEN Null
          ELSE IF PV # {} THEN l[CHOOSE i \in PV : \A j \in PV : i <= j].email
          ELSE l[1].email
    IN IF resolved = Null
       THEN /\ ~last.identity.ok
            /\ last.identity.error = "No email found in GitHub account"
            /\ last.identity.email = Null /\ last.identity.id = Null
       ELSE /\ last.identity.ok
            /\ last.identity.email = resolved
            /\ last.identity.name = IF u.name # Null THEN u.name ELSE u.login

\* C22 witness: the adapter took the second entry of the list, the only one
\* primary and verified, for a profile without email or name.
C22_Witness ==
  /\ last.op = "fetchProviderUserInfo" /\ last.provider = "github"
  /\ last.upstream.profileOk /\ last.upstream.email = Null
  /\ last.upstream.name = Null /\ last.upstream.emailsOk
  /\ Len(last.upstream.emails) = 2
  /\ last.upstream.emails[1].primary /\ ~last.upstream.emails[1].verified
  /\ last.upstream.emails[2].primary /\ last.upstream.emails[2].verified
  /\ last.upstream.emails[2].email # last.upstream.emails[1].email
  /\ last.identity.ok /\ last.identity.email = last.upstream.emails[2].email
  /\ last.identity.name = "ann"

\* C23 (as claimed): whatever the provider answers, an adapter either throws
\* or returns an identity whose id and email are both present and non-empty.
C23_IdentityComplete ==
  (last.op = "fetchProviderUserInfo" /\ last.identity.ok) =>
    /\ last.identity.id \notin {Null, ""}
    /\ last.identity.email \notin {Null, ""}

\* C24: no upstream request is repeated; the Google and Microsoft adapters
\* issue exactly one request, the GitHub adapter its profile request and,
\* only when that succeeded with a profile without email, the emails
\* request; an unsuccessful profile response ends the call with an error
\* after that one request.
C24_NoRetry ==
  (last.op = "fetchProviderUserInfo") =>
    LET q == last.requests
    IN /\ \A i, j \in 1..Len(q) : q[i] = q[j] => i = j
       /\ last.provider = "google" => q = <<"google/userinfo">>
       /\ last.provider = "microsoft" => q = <<"graph/me">>
       /\ last.provider = "github" =>
            q = IF last.upstream.profileOk /\ last.upstream.email \in {Null, ""}
                THEN <<"github/user", "github/user/emails">>
                ELSE <<"github/user">>
       /\ ~last.upstream.profileOk => (Len(q) = 1 /\ ~last.identity.ok)

\* C24 witness: a GitHub profile request failed and the adapter threw after
\* that single request, the emails endpoint being ready to answer.
C24_Witness ==
  /\ last.op = "fetchProviderUserInfo" /\ last.provider = "github"
  /\ ~last.upstream.profileOk /\ last.upstream.emailsOk
  /\ last.upstream.email = Null /\ Len(last.upstream.emails) > 0
  /\ last.requests = <<"github/user">>
  /\ last.identity.error = "Failed to fetch GitHub user info"

\* C25 (as claimed): when a handler awaits request.requireRole('admin') and
\* the requester's stored role is not admin, the rest of the handler does
\* not run (the table is left as it was) and the response is 403.
C25_InHandlerDenialStops ==
  (last.op = "HandlerRequireRole" /\ last.handlerRan
   /\ last.storedRole \notin {Null, "admin"}) =>
    (last.status = 403 /\ ~last.storeChanged)

\* C26: every token the callback or /auth/dev/token issues carries userId
\* and email and no role; hence the principal of every accepted token has
\* role 'user', whatever the role stored for its user is.
C26_IssuedTokensCarryNoRole ==
  /\ \A c \in tokens : c.role = Null /\ c.userId \in Ids /\ c.email \in Emails
  /\ last.op \in {"OAuthCallback", "DevToken"} => last.jwt.role = Null
  /\ last.principal.attached =>
       (last.principal.role = "user" /\ last.tokKind = "valid")

\* C26 witness: a token of a user whose stored role is admin was accepted
\* on the admin surface and its principal has role 'user'.
C26_Witness ==
  /\ last.op = "AdminList" /\ last.status = 200 /\ last.tokKind = "valid"
  /\ last.storedRole = "admin" /\ last.principal.role = "user"
  /\ \E c \in tokens : c.userId = last.principal.userId

\* C27 (as claimed): with callbacks interleaved at their database calls, no
\* email is held by two rows, every callback that has answered answered 200
\* with the id of the row holding its email or 500 'Authentication failed',
\* and two callbacks for one email never answered with different ids.
C27_RacingLoginsOneRow ==
  /\ \A e \in Emails : Cardinality({i \in DOMAIN users : users[i].email = e}) <= 1
  /\ \A s \in Slots :
       (inflight[s].pc = "done" /\ inflight[s].route = "callback") =>
         \/ /\ inflight[s].status = 200
            /\ Exists(inflight[s].bodyUserId)
            /\ users[inflight[s].bodyUserId].email = inflight[s].email
         \/ /\ inflight[s].status = 500
            /\ inflight[s].error = "Authentication failed"
  /\ \A s, t \in Slots :
       (/\ inflight[s].pc = "done" /\ inflight[t].pc = "done"
        /\ inflight[s].route = "callback" /\ inflight[t].route = "callback"
        /\ inflight[s].status = 200 /\ inflight[t].status = 200
        /\ inflight[s].email = inflight[t].email)
       => inflight[s].bodyUserId = inflight[t].bodyUserId

\* C27 (amended): as C27, the 500 carrying the 'authentication failed'
\* message of the request's locale ('Authentication failed' in English).
C27_RacingLoginsOneRowLocalized ==
  /\ \A e \in Emails : Cardinality({i \in DOMAIN users : users[i].email = e}) <= 1
  /\ \A s \in Slots :
       (inflight[s].pc = "done" /\ inflight[s].route = "callback") =>
         \/ /\ inflight[s].status = 200
            /\ Exists(inflight[s].bodyUserId)
            /\ users[inflight[s].bodyUserId].email = inflight[s].email
         \/ /\ inflight[s].status = 500
            /\ inflight[s].error = IF inflight[s].locale = "es"
                                   THEN "Autenticación fallida"
                                   ELSE "Authentication failed"
  /\ \A s, t \in Slots :
       (/\ inflight[s].pc = "done" /\ inflight[t].pc = "done"
        /\ inflight[s].route = "callback" /\ inflight[t].route = "callback"
        /\ inflight[s].status = 200 /\ inflight[t].status = 200
        /\ inflight[s].email = inflight[t].email)
       => inflight[s].bodyUserId = inflight[t].bodyUserId

\* C27 witness: two callbacks for b@x.com, unknown at first, both passed the
\* SELECT before either inserted; one created row 2 and answered with it, the
\* other met the unique index and answered 500 in Spanish.
C27_Witness ==
  \E s, t \in Slots :
    /\ s # t
    /\ inflight[s].pc = "done" /\ inflight[s].route = "callback"
    /\ inflight[s].email = "b@x.com" /\ inflight[s].status = 200
    /\ inflight[s].bodyUserId = 2
    /\ inflight[t].pc = "done" /\ inflight[t].route = "callback"
    /\ inflight[t].email = "b@x.com" /\ inflight[t].status = 500
    /\ inflight[t].locale = "es"
    /\ {i \in DOMAIN users : users[i].email = "b@x.com"} = {2}

\* C28 (as claimed): every role change or deletion that a request to
\* /api/admin/users applies to the table is applied while its requester has a
\* row whose role is admin.
C28_AdminMutationWhileAdmin ==
  [][\A s \in Slots :
       (/\ inflight[s].pc = "write" /\ inflight'[s].pc = "done"
        /\ inflight[s].route \in {"patch", "delete"}
        /\ users' # users)
       => (/\ Exists(inflight[s].requester)
           /\ users[inflight[s].requester].role = "admin")]_vars

\* C29 (as claimed): with DELETE /api/admin/users/:id requests alone, started
\* with at least one admin, the table always keeps a row whose role is admin.
C29_AnAdminRemains ==
  \E i \in DOMAIN users : users[i].role = "admin"

\* C30 (as claimed): a mutating request (POST, PUT, DELETE under /api/users,
\* PATCH, DELETE under /api/admin/users) carrying a valid token whose user
\* has no row leaves the table as it was.
C30_DeletedUsersTokenIsInert ==
  (/\ last.op \in {"CreateUser", "UpdateUser", "DeleteUser", "AdminSetRole", "AdminDelete"}
   /\ last.tokKind = "valid" /\ last.principal.attached
   /\ last.storedRole = Null)
  => ~last.storeChanged

====
